---- MODULE Spec2Model ----
(***************************************************************************)
(* Bar-by-bar backtest of the three strategies of the repository:          *)
(*   MACDCrossover     (src/macd.py)                                       *)
(*   RSIMeanReversion  (src/main.py)                                       *)
(*   TrendFilteredRSI  (src/trendfilteredrsi.py)                           *)
(*                                                                         *)
(* The strategies' next() methods are translated from the source.  The     *)
(* engine they run in (Backtest(...).run(), an imported library) is not    *)
(* part of the source tree; the position/order manager and the simulation  *)
(* loop are modelled from sections 4.3 and 4.4 of the specification.       *)
(*                                                                         *)
(* Numbers.  Prices and indicator values are floats in the program.  They  *)
(* are modelled as integers, and the floats among them are the integers    *)
(* with a significand of Precision bits: every integer of magnitude below  *)
(* 2^Precision, and beyond it the multiples of ulp(x), the spacing that    *)
(* doubles at every power of two.  A product, sum or difference is rounded *)
(* to the nearest float, ties to the even significand, as binary floating  *)
(* point does.  NaN is a value of its own, an integer that is not a float: *)
(* every ordering comparison with NaN is false and arithmetic on NaN gives *)
(* NaN.  An RSI is kept by its place among the whole points, see Whole and *)
(* Between; the values of ema are exact fractions, see Rat and Stored.     *)
(***************************************************************************)
EXTENDS Integers, Sequences, FiniteSets

VARIABLES
    strategy,      \* the Strategy class handed to Backtest(...)
    nbars,         \* number of bars of the data
    len,           \* bars revealed so far: len(self.data.Close) inside next()
    pc,            \* "broker": the loop is about to advance to the next bar;
                   \* "strategy": the bar is processed, next() is due; "done"
    bar,           \* the current bar: [open, high, low, close]
    ind,           \* indicator values at the current bar (x[-1]), once
                   \* next() has been given them
    prev,          \* indicator values at the previous bar (x[-2])
    trades,        \* open trades, oldest first
    orders,        \* orders placed by next(), waiting for the next bar
    cash,          \* cash balance
    trade_log,     \* the closed trades: [count, profit_sum, last], how many,
                   \* the sum of their realized profits, the latest record
    emitted,       \* what next() did on the current bar: [act, sl]
    diag,          \* TRUE iff next() printed a warning on the current bar
    stopped,       \* TRUE iff a stop-loss closed a trade on the current bar
    equity_curve,  \* [count, last]: number of equity points and the last one
    init_warned,   \* TRUE iff init() printed its "Not enough data" warning
    data,          \* the price data when given as a whole series, else NoData
    tally,         \* [buy, sell, close]: actions emitted over a run on data
    calc,          \* a call of ema(arr, n): [arr, n, dtype, ema_arr, i]
    ema_long       \* the trend EMA of the data up to the current bar

vars == <<strategy, nbars, len, pc, bar, ind, prev, trades, orders, cash,
          trade_log, emitted, diag, stopped, equity_curve, init_warned,
          data, tally, calc, ema_long>>

-----------------------------------------------------------------------------
(* Bounds of the model *)

\* bars simulated after the starting point of a run
MaxBars == 5

\* bars of a run on a price series given as a whole
DataBars == 300

\* longest array handed to ema(arr, n)
MaxLen == 4

-----------------------------------------------------------------------------
(* Floating point values *)

\* bits of the significand of a float of the model
Precision == 4

\* float('nan'): its significand would take Precision + 1 bits, so it is not
\* a float of the model and no product, sum or difference gives it
NaN == -(2 ^ Precision + 1)

isna(x) == x = NaN

\* x < y and x > y on floats: false as soon as one side is NaN
Lt(x, y) == x # NaN /\ y # NaN /\ x < y
Gt(x, y) == x # NaN /\ y # NaN /\ x > y
Le(x, y) == x # NaN /\ y # NaN /\ x <= y
Ge(x, y) == x # NaN /\ y # NaN /\ x >= y

\* spacing of the floats at the magnitude of x: 1 below 2^Precision, and
\* twice as wide in every binade above
RECURSIVE ulp(_)
ulp(x) ==
    LET a == IF x < 0 THEN -x ELSE x
    IN  IF a < 2 ^ Precision THEN 1 ELSE 2 * ulp(a \div 2)

\* the float nearest to the exact result x: the spacing is that of the
\* binade x lies in, ties go to the even significand
RoundFloat(x) ==
    LET u == ulp(x)
        q == x \div u
        r == x % u
    IN  IF 2 * r < u THEN q * u
        ELSE IF 2 * r > u THEN (q + 1) * u
        ELSE IF q % 2 = 0 THEN q * u ELSE (q + 1) * u

\* float product, sum and difference
FMul(x, y) == IF x = NaN \/ y = NaN THEN NaN ELSE RoundFloat(x * y)
FAdd(x, y) == IF x = NaN \/ y = NaN THEN NaN ELSE RoundFloat(x + y)
FSub(x, y) == IF x = NaN \/ y = NaN THEN NaN ELSE RoundFloat(x - y)

\* An RSI lies between 0 and 100 and is compared with whole numbers only.
\* It is kept by its place among the whole points: Whole(p) is the value p,
\* or a value within a rounding error of p where the float division is not
\* exact (39.99999999999999 is Whole(40)); Between(p) is any other value
\* between p and p + 1 (29.27 is Between(29)).  The order of the integers is
\* the order of the values.
Whole(p) == 2 * p
Between(p) == 2 * p + 1

-----------------------------------------------------------------------------
(* Strategy parameters and the configuration of the run *)

\* RSIMeanReversion and TrendFilteredRSI
rsi_period == 14
ema_period == 200
atr_period == 14
oversold == 30
overbought == 70
exit_level == 50
stop_loss_atr_multiplier == 2

\* Backtest(data, Strategy, cash=10000, commission=0.0, exclusive_orders=True)
initial_cash == 10000
commission == 0
exclusive_orders == TRUE

Strategies == {"MACDCrossover", "RSIMeanReversion", "TrendFilteredRSI"}

Max(S) == CHOOSE x \in S : \A y \in S : y <= x

\* max(self.rsi_period, self.ema_period, self.atr_period)
WarmUp == Max({rsi_period, ema_period, atr_period})

-----------------------------------------------------------------------------
(* The position, as next() sees it *)

RECURSIVE SumSizes(_)
SumSizes(ts) ==
    IF ts = <<>> THEN 0 ELSE Head(ts).dir * Head(ts).size + SumSizes(Tail(ts))

\* self.position.size: the sum of the sizes of the open trades
position_size(ts) == SumSizes(ts)
\* bool(self.position), self.position.is_long, self.position.is_short
position(ts) == position_size(ts) # 0
is_long(ts) == position_size(ts) > 0
is_short(ts) == position_size(ts) < 0

NoAction == [act |-> "none", sl |-> NaN, warn |-> FALSE]
Buy(sl) == [act |-> "buy", sl |-> sl, warn |-> FALSE]
Sell(sl) == [act |-> "sell", sl |-> sl, warn |-> FALSE]
Close == [act |-> "close", sl |-> NaN, warn |-> FALSE]
Warning == [act |-> "none", sl |-> NaN, warn |-> TRUE]

-----------------------------------------------------------------------------
(* MACDCrossover.next, src/macd.py *)

\* MacdNext entering on a crossing whatever the position
MacdNextStacking(ts, n, m2, s2, m1, s1) ==
    IF n < 2 THEN NoAction
    ELSE IF Lt(m2, s2) /\ Gt(m1, s1) THEN Buy(NaN)
    ELSE IF Gt(m2, s2) /\ Lt(m1, s1) THEN Sell(NaN)
    ELSE NoAction

\* MacdNext without the branch that exits a long position
MacdNextNoLongExit(ts, n, m2, s2, m1, s1) ==
    IF n < 2 THEN NoAction
    ELSE IF ~position(ts) /\ Lt(m2, s2) /\ Gt(m1, s1) THEN Buy(NaN)
    ELSE IF ~position(ts) /\ Gt(m2, s2) /\ Lt(m1, s1) THEN Sell(NaN)
    ELSE IF is_short(ts) /\ Lt(m2, s2) /\ Gt(m1, s1) THEN Close
    ELSE NoAction

\* MacdNext with the two exits exchanged
MacdNextExitsSwapped(ts, n, m2, s2, m1, s1) ==
    IF n < 2 THEN NoAction
    ELSE IF ~position(ts) /\ Lt(m2, s2) /\ Gt(m1, s1) THEN Buy(NaN)
    ELSE IF ~position(ts) /\ Gt(m2, s2) /\ Lt(m1, s1) THEN Sell(NaN)
    ELSE IF is_long(ts) /\ Lt(m2, s2) /\ Gt(m1, s1) THEN Close
    ELSE IF is_short(ts) /\ Gt(m2, s2) /\ Lt(m1, s1) THEN Close
    ELSE NoAction

\* n = len(self.macd_line) = len(self.signal_line); m2, s2 = macd_line[-2],
\* signal_line[-2]; m1, s1 = macd_line[-1], signal_line[-1]
MacdNext(ts, n, m2, s2, m1, s1) ==
    IF n < 2 THEN NoAction
    ELSE IF ~position(ts) /\ Lt(m2, s2) /\ Gt(m1, s1) THEN Buy(NaN)
    ELSE IF ~position(ts) /\ Gt(m2, s2) /\ Lt(m1, s1) THEN Sell(NaN)
    ELSE IF is_long(ts) /\ Gt(m2, s2) /\ Lt(m1, s1) THEN Close
    ELSE IF is_short(ts) /\ Lt(m2, s2) /\ Gt(m1, s1) THEN Close
    ELSE NoAction

-----------------------------------------------------------------------------
(* RSIMeanReversion.next, src/main.py *)

\* RsiNext with the thresholds included in the ranges
RsiNextInclusive(ts, rsi) ==
    IF ~position(ts)
    THEN IF Le(rsi, Whole(oversold)) THEN Buy(NaN)
         ELSE IF Ge(rsi, Whole(overbought)) THEN Sell(NaN)
         ELSE NoAction
    ELSE IF is_long(ts) /\ Ge(rsi, Whole(exit_level)) THEN Close
         ELSE IF is_short(ts) /\ Le(rsi, Whole(exit_level)) THEN Close
         ELSE NoAction

\* RsiNext entering on an extreme RSI whatever the position
RsiNextStacking(ts, rsi) ==
    IF Lt(rsi, Whole(oversold)) THEN Buy(NaN)
    ELSE IF Gt(rsi, Whole(overbought)) THEN Sell(NaN)
    ELSE IF is_long(ts) /\ Gt(rsi, Whole(exit_level)) THEN Close
    ELSE IF is_short(ts) /\ Lt(rsi, Whole(exit_level)) THEN Close
    ELSE NoAction

\* RsiNext turning a position round at the opposite threshold
RsiNextReversing(ts, rsi) ==
    IF ~position(ts)
    THEN IF Lt(rsi, Whole(oversold)) THEN Buy(NaN)
         ELSE IF Gt(rsi, Whole(overbought)) THEN Sell(NaN)
         ELSE NoAction
    ELSE IF is_long(ts) /\ Gt(rsi, Whole(overbought)) THEN Sell(NaN)
         ELSE IF is_short(ts) /\ Lt(rsi, Whole(oversold)) THEN Buy(NaN)
         ELSE IF is_long(ts) /\ Gt(rsi, Whole(exit_level)) THEN Close
         ELSE IF is_short(ts) /\ Lt(rsi, Whole(exit_level)) THEN Close
         ELSE NoAction

\* rsi = self.rsi[-1]
RsiNext(ts, rsi) ==
    IF ~position(ts)
    THEN IF Lt(rsi, Whole(oversold)) THEN Buy(NaN)
         ELSE IF Gt(rsi, Whole(overbought)) THEN Sell(NaN)
         ELSE NoAction
    ELSE IF is_long(ts) /\ Gt(rsi, Whole(exit_level)) THEN Close
         ELSE IF is_short(ts) /\ Lt(rsi, Whole(exit_level)) THEN Close
         ELSE NoAction

-----------------------------------------------------------------------------
(* TrendFilteredRSI.next, src/trendfilteredrsi.py *)

\* crossover(series1, series2): series1[-2] < series2[-2] and
\* series1[-1] > series2[-1]
crossover(a2, a1, b2, b1) == Lt(a2, b2) /\ Gt(a1, b1)

\* TfSkip without the test of the ATR
TfSkipAtrUnchecked(n, current_rsi, current_ema, current_atr) ==
    \/ n < WarmUp
    \/ isna(current_rsi) \/ isna(current_ema)

\* TfSkip without the test of the number of bars seen
TfSkipNoWarmUp(n, current_rsi, current_ema, current_atr) ==
    \/ isna(current_rsi) \/ isna(current_ema) \/ isna(current_atr)
    \/ Le(current_atr, 0)

\* the bar is skipped: too little history, or an indicator is not a valid
\* number
TfSkip(n, current_rsi, current_ema, current_atr) ==
    \/ n < WarmUp
    \/ isna(current_rsi) \/ isna(current_ema) \/ isna(current_atr)
    \/ Le(current_atr, 0)

long_stop_loss(current_price, current_atr) ==
    FSub(current_price, FMul(stop_loss_atr_multiplier, current_atr))
short_stop_loss(current_price, current_atr) ==
    FAdd(current_price, FMul(stop_loss_atr_multiplier, current_atr))

\* the trend filter of the long side left out
is_uptrend_unfiltered(current_price, current_ema) == TRUE

\* conditions for entry
is_uptrend(current_price, current_ema) == Gt(current_price, current_ema)
is_downtrend(current_price, current_ema) == Lt(current_price, current_ema)
is_oversold(current_rsi) == Lt(current_rsi, Whole(oversold))
is_overbought(current_rsi) == Gt(current_rsi, Whole(overbought))

\* the long exit on the level alone, without the crossing
rsi_above_exit_level(rsi2, current_rsi) == Gt(current_rsi, Whole(exit_level))

\* exit conditions: crossover(self.rsi, self.exit_level) and
\* crossover(self.exit_level, self.rsi); rsi2 = self.rsi[-2]
rsi_crossed_above_exit(rsi2, current_rsi) ==
    crossover(rsi2, current_rsi, Whole(exit_level), Whole(exit_level))
rsi_crossed_below_exit(rsi2, current_rsi) ==
    crossover(Whole(exit_level), Whole(exit_level), rsi2, current_rsi)

\* the stop of a long entry accepted unchecked
long_stop_unchecked(sl, current_price) == TRUE

\* the stop of a short entry accepted unchecked
short_stop_unchecked(sl, current_price) == TRUE

\* a stop on the wrong side of the price is refused
long_stop_ok(sl, current_price) == Lt(sl, current_price)
short_stop_ok(sl, current_price) == Gt(sl, current_price)

\* n = len(self.data.Close); rsi2 = self.rsi[-2]
TfNext(ts, n, current_price, rsi2, current_rsi, current_ema, current_atr) ==
    IF TfSkip(n, current_rsi, current_ema, current_atr) THEN NoAction
    ELSE
    LET lsl == long_stop_loss(current_price, current_atr)
        ssl == short_stop_loss(current_price, current_atr)
    IN  IF ~position(ts)
        THEN IF is_uptrend(current_price, current_ema) /\ is_oversold(current_rsi)
             THEN IF long_stop_ok(lsl, current_price) THEN Buy(lsl) ELSE Warning
             ELSE IF /\ is_downtrend(current_price, current_ema)
                     /\ is_overbought(current_rsi)
             THEN IF short_stop_ok(ssl, current_price) THEN Sell(ssl) ELSE Warning
             ELSE NoAction
        ELSE IF is_long(ts) /\ rsi_crossed_above_exit(rsi2, current_rsi)
             THEN Close
             ELSE IF is_short(ts) /\ rsi_crossed_below_exit(rsi2, current_rsi)
             THEN Close
             ELSE NoAction

-----------------------------------------------------------------------------
(* Position and order manager (specification, section 4.3) *)

\* the broker's books: open trades, cash, log of closed trades
Books(ts, c, lg) == [trades |-> ts, cash |-> c, log |-> lg]

\* a record of the trade log
Trade(d, entry, exit, pr) ==
    [direction |-> d, entry_price |-> entry, exit_price |-> exit, profit |-> pr]
NoTrade == Trade(0, NaN, NaN, 0)
EmptyLog == [count |-> 0, profit_sum |-> 0, last |-> NoTrade]

\* realized profit of trade t closed at price p
Profit(t, p) == t.dir * (p - t.entry_price) * t.size

\* a closed trade logged without its profit reaching the cash
CloseTradeUnbooked(b, t, p) ==
    [b EXCEPT !.log = [count |-> @.count + 1,
                       profit_sum |-> @.profit_sum + Profit(t, p),
                       last |-> Trade(t.dir, t.entry_price, p, Profit(t, p))]]

\* a transition to flat: one Trade record appended, cash updated by the
\* realized profit minus the commission
CloseTrade(b, t, p) ==
    [b EXCEPT !.cash = @ + Profit(t, p) - commission,
              !.log = [count |-> @.count + 1,
                       profit_sum |-> @.profit_sum + Profit(t, p),
                       last |-> Trade(t.dir, t.entry_price, p, Profit(t, p))]]

RECURSIVE CloseAllFrom(_, _, _)
CloseAllFrom(b, ts, p) ==
    IF ts = <<>> THEN b
    ELSE CloseAllFrom(CloseTrade(b, Head(ts), p), Tail(ts), p)

\* every open trade is closed at price p
CloseAll(b, p) == CloseAllFrom([b EXCEPT !.trades = <<>>], b.trades, p)

\* an order is filled at the open of the bar after the one that placed it;
\* with exclusive orders an entry first closes what is open
FillOrder(b, o, open) ==
    IF o.act = "close" THEN CloseAll(b, open)
    ELSE LET b1 == IF exclusive_orders THEN CloseAll(b, open) ELSE b
         IN  [b1 EXCEPT !.trades =
                 Append(@, [dir |-> IF o.act = "buy" THEN 1 ELSE -1,
                            entry_price |-> open,
                            sl |-> o.sl,
                            size |-> 1])]

RECURSIVE FillOrders(_, _, _)
FillOrders(b, os, open) ==
    IF os = <<>> THEN b
    ELSE FillOrders(FillOrder(b, Head(os), open), Tail(os), open)

\* the stop-loss of trade t is hit by the bar
StopHit(t, br) ==
    \/ t.dir = 1 /\ Le(br.low, t.sl)
    \/ t.dir = -1 /\ Ge(br.high, t.sl)

\* a hit stop filled at the extreme of the bar
StopFillAtExtreme(t, br) == IF t.dir = 1 THEN br.low ELSE br.high

\* price at which a hit stop is filled
StopFillPrice(t, br) == t.sl

RECURSIVE CheckStopsFrom(_, _, _)
CheckStopsFrom(b, ts, br) ==
    IF ts = <<>> THEN b
    ELSE LET t == Head(ts)
             b1 == IF StopHit(t, br)
                   THEN CloseTrade(b, t, StopFillPrice(t, br))
                   ELSE [b EXCEPT !.trades = Append(@, t)]
         IN  CheckStopsFrom(b1, Tail(ts), br)

\* the stop-loss check of a bar: every open trade whose stop is hit is closed
CheckStops(b, br) == CheckStopsFrom([b EXCEPT !.trades = <<>>], b.trades, br)

\* the stops checked before the pending orders are filled
ProcessBarStopsFirst(b, os, br) == FillOrders(CheckStops(b, br), os, br.open)

\* what the manager does with a new bar: the pending orders are filled at the
\* open, then the stop-losses are checked against the high and the low
ProcessBar(b, os, br) == CheckStops(FillOrders(b, os, br.open), br)

\* an action of next() becomes a pending order
PlaceOrder(os, a) ==
    IF a.act = "none" THEN os
    ELSE Append(os, [act |-> a.act, sl |-> a.sl])

RECURSIVE Unrealized(_, _)
Unrealized(ts, p) ==
    IF ts = <<>> THEN 0 ELSE Profit(Head(ts), p) + Unrealized(Tail(ts), p)

\* an equity that counts the cash only
EquityCashOnly(c, ts, p) == c

\* equity = cash + unrealized position value
Equity(c, ts, p) == c + Unrealized(ts, p)

-----------------------------------------------------------------------------
(* Inputs: the bars and the indicator values of a run *)

PriceVals == {64, 80, 96}
\* <<rise of the high above the body, drop of the low below the body>>
Wicks == {<<0, 0>>, <<16, 0>>, <<0, 16>>}

Min2(x, y) == IF x <= y THEN x ELSE y
Max2(x, y) == IF x >= y THEN x ELSE y

\* low <= open, close <= high
Bars ==
    {[open |-> o, high |-> Max2(o, c) + w[1], low |-> Min2(o, c) - w[2],
      close |-> c] : o \in PriceVals, c \in PriceVals, w \in Wicks}

NoBar == [open |-> NaN, high |-> NaN, low |-> NaN, close |-> NaN]

\* MACD and signal line: below, equal, above, undefined
MacdVals == {NaN, 1, 2, 3}
SignalVals == {NaN, 2}
\* RSI: undefined, just below 30, the thresholds, just above 70
RsiVals == {NaN, Between(29), Whole(30), Whole(50), Whole(70), Between(70)}
TfRsiVals == {NaN, Between(29), Whole(30), Between(70)}
EmaVals == {NaN, 80}
\* undefined, zero, positive but lost in the rounding of close -/+ 2 * ATR,
\* the spacing of the floats at the prices
AtrVals == {NaN, 0, 1, 8}

Indicators(m, s, r, e, a) ==
    [macd |-> m, signal |-> s, rsi |-> r, ema |-> e, atr |-> a]
NoIndicators == Indicators(NaN, NaN, NaN, NaN, NaN)

\* of the values of the previous bar, those next() reads at index -2
Previous(st, i) ==
    IF st = "MACDCrossover" THEN Indicators(i.macd, i.signal, NaN, NaN, NaN)
    ELSE IF st = "TrendFilteredRSI" THEN Indicators(NaN, NaN, i.rsi, NaN, NaN)
    ELSE NoIndicators

-----------------------------------------------------------------------------
(* Price data given as a whole series *)

\* [p0, steps, wick]: the first close, the changes of the close from bar to
\* bar, taken in turn over and over, and the reach of the high and the low
\* beyond open and close
NoData == [p0 |-> NaN, steps |-> <<>>, wick |-> 0]

RECURSIVE SumTo(_, _)
SumTo(q, k) == IF k = 0 THEN 0 ELSE q[k] + SumTo(q, k - 1)

\* data.Close[i] - data.Close[i - 1] for i >= 1
Step(d, i) == d.steps[((i - 1) % Len(d.steps)) + 1]

\* data.Close[i]
ClosePrice(d, i) ==
    d.p0 + (i \div Len(d.steps)) * SumTo(d.steps, Len(d.steps))
         + SumTo(d.steps, i % Len(d.steps))

\* bar i of the data: it opens at the close of the bar before
BarAt(d, i) ==
    LET o == IF i = 0 THEN d.p0 ELSE ClosePrice(d, i - 1)
        c == ClosePrice(d, i)
    IN  [open |-> o, high |-> Max2(o, c) + d.wick, low |-> Min2(o, c) - d.wick,
         close |-> c]

\* the first close of every series, and the steps of the series: never
\* down, never up, or up and down in turn
FirstClose == 14000
Rises == {0, 14, 28}
Falls == {0, -14}
UpsAndDowns == {<<28, -14>>, <<12, -29>>}
StepPatterns == [1..3 -> Rises] \cup [1..3 -> Falls] \cup UpsAndDowns
DataWicks == {0, 14}

Constant(d) == d.wick = 0 /\ \A k \in 1..Len(d.steps) : d.steps[k] = 0
Rising(d) ==
    /\ \A k \in 1..Len(d.steps) : d.steps[k] >= 0
    /\ \E k \in 1..Len(d.steps) : d.steps[k] > 0
Falling(d) ==
    /\ \A k \in 1..Len(d.steps) : d.steps[k] <= 0
    /\ \E k \in 1..Len(d.steps) : d.steps[k] < 0

\* the series a strategy is run on: RSIMeanReversion on rising, falling,
\* constant and alternating closes, TrendFilteredRSI on constant closes
DataSets(st) ==
    IF st = "RSIMeanReversion"
    THEN {[p0 |-> FirstClose, steps |-> q, wick |-> w] :
              q \in StepPatterns, w \in DataWicks}
    ELSE {[p0 |-> FirstClose, steps |-> <<0, 0, 0>>, wick |-> w] :
              w \in DataWicks}

-----------------------------------------------------------------------------
(* RSIMeanReversion.init, src/main.py: the RSI of the closes *)

\* delta = close.diff() is undefined at index 0, and a comparison with an
\* undefined value is false
\* gain = delta.where(delta > 0, 0)
gain(d, i) == IF i > 0 /\ Step(d, i) > 0 THEN Step(d, i) ELSE 0
\* loss = -delta.where(delta < 0, 0)
loss(d, i) == IF i > 0 /\ Step(d, i) < 0 THEN -Step(d, i) ELSE 0

\* x.rolling(window=w, min_periods=w).mean() at index i, in units of 1/w:
\* undefined until w values have been seen, then the sum of the last w
avg_gain(d, i) ==
    IF i + 1 < rsi_period THEN NaN
    ELSE SumTo([k \in 1..rsi_period |-> gain(d, i - rsi_period + k)],
               rsi_period)
avg_loss(d, i) ==
    IF i + 1 < rsi_period THEN NaN
    ELSE SumTo([k \in 1..rsi_period |-> loss(d, i - rsi_period + k)],
               rsi_period)

\* the RSI with gains and losses in each other's place
rsi_inverted(d, i) ==
    LET g == avg_loss(d, i)
        l == avg_gain(d, i)
    IN  IF isna(g) \/ isna(l) THEN NaN
        ELSE IF l = 0 THEN (IF g = 0 THEN NaN ELSE Whole(100))
        ELSE IF (100 * l) % (g + l) = 0
             THEN Whole(100 - (100 * l) \div (g + l))
             ELSE Between(100 - (100 * l) \div (g + l) - 1)

\* rs = avg_gain / avg_loss; rsi = 100 - (100 / (1 + rs)).  Float division:
\* 0/0 is NaN and stays NaN, x/0 is infinite and gives 100 - 100/inf = 100.
\* With rs = g/l the quotient 100 / (1 + rs) is 100*l/(g + l): where it is a
\* whole number q the RSI is the point 100 - q, up to the rounding of the
\* divisions, which the thresholds 30, 50 and 70 are free of (l : g = 7 : 3,
\* 1 : 1 and 3 : 7 give 30.0, 50.0 and 70.0); where it lies between q and
\* q + 1 the RSI lies between 100 - q - 1 and 100 - q
rsi(d, i) ==
    LET g == avg_gain(d, i)
        l == avg_loss(d, i)
    IN  IF isna(g) \/ isna(l) THEN NaN
        ELSE IF l = 0 THEN (IF g = 0 THEN NaN ELSE Whole(100))
        ELSE IF (100 * l) % (g + l) = 0
             THEN Whole(100 - (100 * l) \div (g + l))
             ELSE Between(100 - (100 * l) \div (g + l) - 1)

-----------------------------------------------------------------------------
(* MACDCrossover.ema, src/macd.py *)

\* values of the arrays, in price units
EmaPrices == {1, 2, 3}
EmaPeriods == {1, 2, 3, 10}
\* dtype of np.asarray(arr), which np.empty_like(arr) gives to ema_arr
DTypes == {"float64", "int64"}

RECURSIVE GCD(_, _)
GCD(a, b) == IF b = 0 THEN a ELSE GCD(b, a % b)

\* the fraction a / b in lowest terms, b > 0 and a >= 0
Rat(a, b) == [num |-> a \div GCD(a, b), den |-> b \div GCD(a, b)]

NoCalc == [arr |-> <<>>, n |-> 0, dtype |-> "none", ema_arr |-> <<>>, i |-> 0]

\* an element of ema_arr: val is the value the exact recurrence gives, err
\* the side on which the double that is stored lies, -1 a rounding error
\* below val, 0 on it, 1 a rounding error above
Stored(v, s) == [val |-> v, err |-> s]

RECURSIVE IsPowerOfTwo(_)
IsPowerOfTwo(m) == m = 1 \/ (m > 1 /\ m % 2 = 0 /\ IsPowerOfTwo(m \div 2))

\* alpha = 2 / (n + 1) is a binary fraction: alpha and 1 - alpha are exact
\* doubles, and so are their products with the values of the arrays and the
\* sum of the two
alpha_exact(n) == IsPowerOfTwo(n + 1)

\* the fraction v is a binary fraction and so a double
is_double(v) == IsPowerOfTwo(v.den)

\* alpha * x + (1 - alpha) * e with alpha = 2 / (n + 1), x a whole number and
\* e a fraction: the exact value of the expression, as a fraction; the
\* rounding of the doubles is in Store
Smooth(n, x, e) == Rat(2 * x * e.den + (n - 1) * e.num, (n + 1) * e.den)

\* ema_arr[i] = alpha * arr[i] + (1 - alpha) * ema_arr[i - 1]: what the
\* assignment stores, e the element before.  With alpha a binary fraction
\* the doubles are exact.  Otherwise alpha, the products and the sum are
\* rounded, and the double sum lies a rounding error off the exact value, on
\* either side, or on it when the exact value is a double.  An int64 array
\* drops the fraction of the double sum: where the exact value is a whole
\* number and the double sum may lie below it, the integer below may be
\* stored
Store(dtype, n, x, e) ==
    LET v == Smooth(n, x, e.val)
    IN  IF dtype = "int64"
        THEN LET q == v.num \div v.den
             IN  IF v.den = 1 /\ ~alpha_exact(n)
                 THEN {Stored(Rat(q, 1), 0), Stored(Rat(q - 1, 1), 0)}
                 ELSE {Stored(Rat(q, 1), 0)}
        ELSE IF alpha_exact(n) /\ e.err = 0 THEN {Stored(v, 0)}
        ELSE IF is_double(v) THEN {Stored(v, s) : s \in {-1, 0, 1}}
        ELSE {Stored(v, s) : s \in {-1, 1}}

-----------------------------------------------------------------------------
(* Indicators of TrendFilteredRSI.init (specification, section 4.1) *)

Abs(x) == IF x >= 0 THEN x ELSE -x

\* max of high - low, |high - previous close|, |low - previous close|
true_range(d, i) ==
    LET b == BarAt(d, i)
    IN  IF i = 0 THEN b.high - b.low
        ELSE LET pcl == ClosePrice(d, i - 1)
             IN  Max({b.high - b.low, Abs(b.high - pcl), Abs(b.low - pcl)})

\* rolling mean of the true range over the window, undefined before the
\* window is full
atr(d, i) ==
    IF i + 1 < atr_period THEN NaN
    ELSE SumTo([k \in 1..atr_period |-> true_range(d, i - atr_period + k)],
               atr_period) \div atr_period

\* the trend EMA at index i as a fraction, e its value at index i - 1:
\* seeded with the first close, then the smoothing step
ema_indicator(d, i, e) ==
    IF i = 0 THEN Rat(ClosePrice(d, 0), 1)
    ELSE Smooth(ema_period, ClosePrice(d, i), e)

\* current_ema as next() sees it beside current_price, which is all it is
\* compared with: the fraction v itself where it is a whole number, else the
\* whole number next to it on the side away from the price, so that
\* current_price > current_ema and current_price < current_ema are those of v
ema_seen(v, current_price) ==
    IF v.den = 1 THEN v.num
    ELSE IF current_price * v.den < v.num THEN v.num \div v.den + 1
    ELSE v.num \div v.den

\* the RSI of the library: rolling means as above; where gains and losses
\* are both 0 the specification gives two readings, undefined and 100
tf_rsi(d, i) ==
    IF ~isna(avg_loss(d, i)) /\ avg_loss(d, i) = 0 /\ avg_gain(d, i) = 0
    THEN {NaN, Whole(100)}
    ELSE {rsi(d, i)}

\* actions emitted over a run
NoTally == [buy |-> 0, sell |-> 0, close |-> 0]
Tallied(t, a) ==
    [buy |-> t.buy + (IF a.act = "buy" THEN 1 ELSE 0),
     sell |-> t.sell + (IF a.act = "sell" THEN 1 ELSE 0),
     close |-> t.close + (IF a.act = "close" THEN 1 ELSE 0)]

-----------------------------------------------------------------------------
(* The simulation loop (specification, section 4.4) *)

\* bars already seen when the model takes over: none, or a number of the
\* bars on which TrendFilteredRSI.next returns before reading anything, such
\* that the data ends short of the warm-up or goes past it
StartLens(st) ==
    IF st = "TrendFilteredRSI"
    THEN {0, WarmUp - 2 - MaxBars, WarmUp - 2}
    ELSE {0}

\* TrendFilteredRSI.init: the data has fewer rows than the longest period;
\* init() prints a warning and goes on
not_enough_data(st, n) == st = "TrendFilteredRSI" /\ n < WarmUp

Init ==
    /\ strategy \in Strategies
    /\ len \in StartLens(strategy)
    /\ nbars = len + MaxBars
    /\ pc = "broker"
    /\ bar = NoBar
    /\ ind = NoIndicators
    /\ prev = NoIndicators
    /\ trades = <<>>
    /\ orders = <<>>
    /\ cash = initial_cash
    /\ trade_log = EmptyLog
    /\ emitted = [act |-> "none", sl |-> NaN]
    /\ diag = FALSE
    /\ stopped = FALSE
    /\ equity_curve = [count |-> len, last |-> initial_cash]
    /\ init_warned = not_enough_data(strategy, nbars)
    /\ data = NoData
    /\ tally = NoTally
    /\ calc = NoCalc
    /\ ema_long = Rat(0, 1)

\* the loop advances to the next bar: the pending orders are filled at its
\* open, then the stop-losses are checked against its high and low; the
\* indicator values of the bar before become the values at index -2
TakeBar(br) ==
    /\ pc = "broker"
    /\ len < nbars
    /\ LET filled == FillOrders(Books(trades, cash, trade_log), orders, br.open)
           after == ProcessBar(Books(trades, cash, trade_log), orders, br)
       IN  /\ bar' = br
           /\ trades' = after.trades
           /\ cash' = after.cash
           /\ trade_log' = after.log
           /\ stopped' = (after.log.count > filled.log.count)
    /\ len' = len + 1
    /\ orders' = <<>>
    /\ prev' = Previous(strategy, ind)
    /\ ind' = NoIndicators
    /\ emitted' = [act |-> "none", sl |-> NaN]
    /\ diag' = FALSE
    /\ pc' = "strategy"
    /\ UNCHANGED <<strategy, nbars, equity_curve, init_warned, data, tally, calc,
                   ema_long>>

\* the next bar is any bar
BrokerNext == \E br \in Bars : TakeBar(br)

\* what every call of next() leaves behind: the action becomes a pending
\* order, and the bar's equity point is appended
AfterNext(a, newind) ==
    /\ ind' = newind
    /\ emitted' = [act |-> a.act, sl |-> a.sl]
    /\ diag' = a.warn
    /\ orders' = PlaceOrder(orders, a)
    /\ equity_curve' = [count |-> equity_curve.count + 1,
                        last |-> Equity(cash, trades, bar.close)]
    /\ pc' = "broker"
    /\ UNCHANGED <<strategy, nbars, len, bar, prev, trades, cash, trade_log,
                   stopped, init_warned, data, calc>>

MacdStep ==
    /\ pc = "strategy"
    /\ strategy = "MACDCrossover"
    /\ \E m \in MacdVals, s \in SignalVals :
        AfterNext(MacdNext(trades, len, prev.macd, prev.signal, m, s),
                  Indicators(m, s, NaN, NaN, NaN))
    /\ UNCHANGED <<tally, ema_long>>

RsiStep ==
    /\ pc = "strategy"
    /\ strategy = "RSIMeanReversion"
    /\ \E r \in RsiVals :
        AfterNext(RsiNext(trades, r), Indicators(NaN, NaN, r, NaN, NaN))
    /\ UNCHANGED <<tally, ema_long>>

TfStep ==
    /\ pc = "strategy"
    /\ strategy = "TrendFilteredRSI"
    /\ \E r \in TfRsiVals, e \in EmaVals, a \in AtrVals :
        AfterNext(TfNext(trades, len, bar.close, prev.rsi, r, e, a),
                  Indicators(NaN, NaN, r, e, a))
    /\ UNCHANGED <<tally, ema_long>>

\* the loop ends after the last bar; an open position stays open
Finish ==
    /\ pc = "broker"
    /\ len = nbars
    /\ pc' = "done"
    /\ UNCHANGED <<strategy, nbars, len, bar, ind, prev, trades, orders, cash,
                   trade_log, emitted, diag, stopped, equity_curve, init_warned,
                   data, tally, calc, ema_long>>

Next == BrokerNext \/ MacdStep \/ RsiStep \/ TfStep \/ Finish

Spec == Init /\ [][Next]_vars

\* bt.run() runs its loop to the end: a step that can be taken is taken
FairSpec == Spec /\ WF_vars(Next)

-----------------------------------------------------------------------------
(* Runs on a whole price series, and calls of ema *)

\* run_backtest(data) with a series of DataBars bars
DataInit ==
    /\ strategy \in {"RSIMeanReversion", "TrendFilteredRSI"}
    /\ data \in DataSets(strategy)
    /\ len = 0
    /\ nbars = DataBars
    /\ pc = "broker"
    /\ bar = NoBar
    /\ ind = NoIndicators
    /\ prev = NoIndicators
    /\ trades = <<>>
    /\ orders = <<>>
    /\ cash = initial_cash
    /\ trade_log = EmptyLog
    /\ emitted = [act |-> "none", sl |-> NaN]
    /\ diag = FALSE
    /\ stopped = FALSE
    /\ equity_curve = [count |-> 0, last |-> initial_cash]
    /\ init_warned = not_enough_data(strategy, nbars)
    /\ tally = NoTally
    /\ calc = NoCalc
    /\ ema_long = Rat(0, 1)

\* ema(arr, n) after ema_arr[0] = arr[0]
EmaInit ==
    /\ \E k \in 1..MaxLen, n \in EmaPeriods, t \in DTypes :
         \E a \in [1..k -> EmaPrices] :
            calc = [arr |-> a, n |-> n, dtype |-> t,
                    ema_arr |-> <<Stored(Rat(a[1], 1), 0)>>, i |-> 1]
    /\ pc = "ema"
    /\ strategy = "MACDCrossover"
    /\ data = NoData
    /\ len = 0
    /\ nbars = 0
    /\ bar = NoBar
    /\ ind = NoIndicators
    /\ prev = NoIndicators
    /\ trades = <<>>
    /\ orders = <<>>
    /\ cash = initial_cash
    /\ trade_log = EmptyLog
    /\ emitted = [act |-> "none", sl |-> NaN]
    /\ diag = FALSE
    /\ stopped = FALSE
    /\ equity_curve = [count |-> 0, last |-> initial_cash]
    /\ init_warned = FALSE
    /\ tally = NoTally
    /\ ema_long = Rat(0, 1)

SeriesInit == DataInit \/ EmaInit

\* the next bar is the next one of the data
DataBrokerNext == TakeBar(BarAt(data, len))

\* RSIMeanReversion.next with the RSI of the data at the current bar
DataRsiStep ==
    /\ pc = "strategy"
    /\ strategy = "RSIMeanReversion"
    /\ LET r == rsi(data, len - 1)
           a == RsiNext(trades, r)
       IN  /\ AfterNext(a, Indicators(NaN, NaN, r, NaN, NaN))
           /\ tally' = Tallied(tally, a)
    /\ UNCHANGED ema_long

\* TrendFilteredRSI.next with the indicators of the data at the current bar
DataTfStep ==
    /\ pc = "strategy"
    /\ strategy = "TrendFilteredRSI"
    /\ \E r \in tf_rsi(data, len - 1) :
         LET f == ema_indicator(data, len - 1, ema_long)
             e == ema_seen(f, bar.close)
             v == atr(data, len - 1)
             a == TfNext(trades, len, bar.close, prev.rsi, r, e, v)
         IN  /\ AfterNext(a, Indicators(NaN, NaN, r, e, v))
             /\ tally' = Tallied(tally, a)
             /\ ema_long' = f

\* one pass of the loop of ema: for i in range(1, len(arr))
EmaLoop ==
    /\ pc = "ema"
    /\ calc.i < Len(calc.arr)
    /\ \E v \in Store(calc.dtype, calc.n, calc.arr[calc.i + 1],
                      calc.ema_arr[calc.i]) :
         calc' = [calc EXCEPT !.ema_arr = Append(@, v), !.i = @ + 1]
    /\ UNCHANGED <<strategy, nbars, len, pc, bar, ind, prev, trades, orders,
                   cash, trade_log, emitted, diag, stopped, equity_curve,
                   init_warned, data, tally, ema_long>>

\* return ema_arr
EmaReturn ==
    /\ pc = "ema"
    /\ calc.i = Len(calc.arr)
    /\ pc' = "done"
    /\ UNCHANGED <<strategy, nbars, len, bar, ind, prev, trades, orders, cash,
                   trade_log, emitted, diag, stopped, equity_curve,
                   init_warned, data, tally, calc, ema_long>>

SeriesNext ==
    \/ DataBrokerNext
    \/ DataRsiStep
    \/ DataTfStep
    \/ Finish
    \/ EmaLoop
    \/ EmaReturn

SeriesSpec == SeriesInit /\ [][SeriesNext]_vars

-----------------------------------------------------------------------------
(* Vocabulary of the properties *)

\* next() has run on the current bar
Decided == pc \in {"broker", "done"} /\ bar # NoBar
\* a step of the loop that calls next()
StrategyStep == pc = "strategy" /\ pc' = "broker"
\* a step of the loop that takes in a new bar
BrokerStep == pc = "broker" /\ pc' = "strategy"

Flat == trades = <<>>
Long == Len(trades) = 1 /\ trades[1].dir = 1
Short == Len(trades) = 1 /\ trades[1].dir = -1

IsEntry(o) == o.act \in {"buy", "sell"}
NoEntryPending == \A k \in 1..Len(orders) : ~IsEntry(orders[k])

\* MACD relative to its signal line on the previous and on the current bar
MacdWasBelow == prev.macd # NaN /\ prev.signal # NaN /\ prev.macd < prev.signal
MacdWasAbove == prev.macd # NaN /\ prev.signal # NaN /\ prev.macd > prev.signal
MacdIsBelow == ind.macd # NaN /\ ind.signal # NaN /\ ind.macd < ind.signal
MacdIsAbove == ind.macd # NaN /\ ind.signal # NaN /\ ind.macd > ind.signal
BullishCross == len >= 2 /\ MacdWasBelow /\ MacdIsAbove
BearishCross == len >= 2 /\ MacdWasAbove /\ MacdIsBelow

RsiBelow(x) == ind.rsi # NaN /\ ind.rsi < Whole(x)
RsiAbove(x) == ind.rsi # NaN /\ ind.rsi > Whole(x)
Uptrend == ind.ema # NaN /\ bar.close > ind.ema
Downtrend == ind.ema # NaN /\ bar.close < ind.ema

\* the indicators of the current bar satisfy an entry condition of the strategy
EntrySignal ==
    \/ strategy = "MACDCrossover" /\ (BullishCross \/ BearishCross)
    \/ strategy = "RSIMeanReversion" /\ (RsiBelow(oversold) \/ RsiAbove(overbought))
    \/ /\ strategy = "TrendFilteredRSI"
       /\ len >= WarmUp /\ ind.atr # NaN /\ ind.atr > 0
       /\ \/ Uptrend /\ RsiBelow(oversold)
          \/ Downtrend /\ RsiAbove(overbought)

-----------------------------------------------------------------------------
(* C1 *)

\* C1: in every run of any of the three strategies, after every bar the
\* position is flat, long or short: at most one trade is open, hence never a
\* long and a short one together, and no entry waits beside an open trade
\* that would open a second one.
C1_ExclusivePosition ==
    /\ Len(trades) <= 1
    /\ Len(orders) <= 1
    /\ ~Flat => NoEntryPending

\* a second position of the run is open, after the first was closed
C1_Witness == Decided /\ Len(trades) = 1 /\ trade_log.count > 0

-----------------------------------------------------------------------------
(* C2 *)

\* C2: when a position is open and the indicators of the bar satisfy an entry
\* condition, next() emits neither buy nor sell and leaves the open trade
\* (direction, entry price, size, stop-loss) and the cash as they are; no
\* entry order is left pending, and the following bar can only keep the open
\* trade or close it, never open or add another.
C2_EntryIgnoredWhilePositioned ==
    [][/\ (StrategyStep /\ ~Flat /\ EntrySignal')
            => /\ emitted'.act \notin {"buy", "sell"}
               /\ trades' = trades
               /\ cash' = cash
               /\ \A k \in 1..Len(orders') : ~IsEntry(orders'[k])
       /\ (BrokerStep /\ ~Flat) => (trades' = trades \/ trades' = <<>>)
      ]_vars

\* TrendFilteredRSI holds a long position on a bar in an uptrend with an
\* oversold RSI and a usable ATR, and does nothing
C2_Witness ==
    /\ Decided /\ strategy = "TrendFilteredRSI" /\ Long
    /\ EntrySignal /\ Uptrend /\ RsiBelow(oversold)
    /\ emitted.act = "none" /\ orders = <<>>

-----------------------------------------------------------------------------
(* C3 *)

\* C3: on every bar MACDCrossover emits enter_long exactly when flat with MACD
\* below the signal line on the previous bar and above it on the current one,
\* enter_short exactly when flat with above-then-below, close exactly when
\* long with above-then-below or short with below-then-above, and nothing in
\* every other case (fewer than 2 values included); only the previous and
\* the current pair of values decide.
C3_MacdDecision ==
    (Decided /\ strategy = "MACDCrossover") =>
        /\ emitted.act \in {"none", "buy", "sell", "close"}
        /\ emitted.act = "buy" <=> (Flat /\ BullishCross)
        /\ emitted.act = "sell" <=> (Flat /\ BearishCross)
        /\ emitted.act = "close" <=>
              ((Long /\ BearishCross) \/ (Short /\ BullishCross))
        /\ len < 2 => emitted.act = "none"

\* a short position is closed on a bullish crossing
C3_Witness ==
    /\ Decided /\ strategy = "MACDCrossover"
    /\ Short /\ BullishCross /\ emitted.act = "close"

-----------------------------------------------------------------------------
(* C4 *)

CloseOrder == [act |-> "close", sl |-> NaN]

\* C4: in MACDCrossover, while a long position is held, MACD above the signal
\* line on one bar and below it on the next makes next() emit one close, which
\* is the only order pending; that order closes the position on the following
\* bar with exactly one Trade and is gone, so the same position is never
\* closed twice.  Symmetrically for a short position and below-then-above.
C4_OneClosePerCrossing ==
    [][/\ (/\ StrategyStep /\ strategy = "MACDCrossover"
           /\ \/ Long /\ MacdWasAbove /\ MacdIsBelow'
              \/ Short /\ MacdWasBelow /\ MacdIsAbove')
            => (emitted'.act = "close" /\ orders' = <<CloseOrder>>)
       /\ (/\ BrokerStep /\ strategy = "MACDCrossover"
           /\ orders # <<>> /\ orders[1].act = "close")
            => /\ trades' = <<>>
               /\ orders' = <<>>
               /\ trade_log'.count = trade_log.count + 1
               /\ trade_log'.last.direction = trades[1].dir
      ]_vars

\* a long position of MACDCrossover has been closed by its close signal
C4_Witness ==
    /\ strategy = "MACDCrossover" /\ pc = "strategy"
    /\ Flat /\ ~stopped /\ trade_log.count = 1
    /\ trade_log.last.direction = 1
    /\ MacdWasBelow

-----------------------------------------------------------------------------
(* C5 *)

\* C5: on every bar RSIMeanReversion emits enter_long exactly when flat with
\* RSI < oversold, enter_short exactly when flat with RSI > overbought, close
\* exactly when long with RSI > exit_level or short with RSI < exit_level, and
\* nothing otherwise, an RSI equal to a threshold included.
C5_RsiDecision ==
    (Decided /\ strategy = "RSIMeanReversion") =>
        /\ emitted.act \in {"none", "buy", "sell", "close"}
        /\ emitted.act = "buy" <=> (Flat /\ RsiBelow(30))
        /\ emitted.act = "sell" <=> (Flat /\ RsiAbove(70))
        /\ emitted.act = "close" <=>
              ((Long /\ RsiAbove(50)) \/ (Short /\ RsiBelow(50)))
        /\ (Flat /\ ind.rsi \in {Whole(30), Whole(50), Whole(70)}) =>
              emitted.act = "none"
        /\ (~Flat /\ ind.rsi = Whole(50)) => emitted.act = "none"

\* a short position is kept on a bar whose RSI equals the exit level
C5_Witness ==
    /\ Decided /\ strategy = "RSIMeanReversion"
    /\ Short /\ ind.rsi = Whole(50) /\ emitted.act = "none"

-----------------------------------------------------------------------------
(* C6 *)

\* C6: TrendFilteredRSI emits enter_long only when flat with the close above
\* the trend EMA and RSI < oversold, and the order carries the stop-loss
\* close - 2*ATR; it emits enter_short only when flat with the close below
\* the EMA and RSI > overbought, with the stop-loss close + 2*ATR.  No entry
\* goes without a stop-loss or against the trend filter, and every trade the
\* strategy holds has a stop-loss.
C6_FilteredEntryWithStop ==
    strategy = "TrendFilteredRSI" =>
        /\ (Decided /\ emitted.act = "buy") =>
              /\ Flat /\ Uptrend /\ RsiBelow(30)
              /\ ind.atr # NaN /\ emitted.sl # NaN
              /\ emitted.sl = bar.close - 2 * ind.atr
              /\ orders = <<[act |-> "buy", sl |-> emitted.sl]>>
        /\ (Decided /\ emitted.act = "sell") =>
              /\ Flat /\ Downtrend /\ RsiAbove(70)
              /\ ind.atr # NaN /\ emitted.sl # NaN
              /\ emitted.sl = bar.close + 2 * ind.atr
              /\ orders = <<[act |-> "sell", sl |-> emitted.sl]>>
        /\ \A k \in 1..Len(trades) : trades[k].sl # NaN

\* a short entry with its stop above the close
C6_Witness ==
    /\ Decided /\ strategy = "TrendFilteredRSI"
    /\ emitted.act = "sell" /\ emitted.sl > bar.close

-----------------------------------------------------------------------------
(* C7 *)

\* the stop computed on the current bar is on the wrong side of the price,
\* for the entry the indicators ask for
WrongSideStop ==
    /\ strategy = "TrendFilteredRSI"
    /\ len >= WarmUp /\ ind.atr # NaN /\ ind.atr > 0
    /\ \/ /\ Uptrend /\ RsiBelow(oversold)
          /\ ~(long_stop_loss(bar.close, ind.atr) < bar.close)
       \/ /\ Downtrend /\ RsiAbove(overbought)
          /\ ~(short_stop_loss(bar.close, ind.atr) > bar.close)

\* C7: in TrendFilteredRSI, when the stop computed for an entry is not below
\* the price (long) or not above it (short), no order is placed, position and
\* cash stay as they are, a warning is printed, and the loop goes on to the
\* next bar.
C7_IllogicalStopRejected ==
    [][(StrategyStep /\ Flat /\ WrongSideStop')
          => /\ emitted'.act = "none"
             /\ orders' = <<>>
             /\ trades' = trades
             /\ cash' = cash
             /\ diag'
             /\ pc' = "broker"
      ]_vars

\* a long entry has been refused for its stop, with a warning
C7_Witness ==
    /\ Decided /\ strategy = "TrendFilteredRSI" /\ Flat
    /\ WrongSideStop /\ Uptrend /\ diag /\ orders = <<>>

-----------------------------------------------------------------------------
(* C8 *)

\* the trade t, open when the stops of the new bar are checked, ends on that
\* bar as a Trade that exits at its stop-loss
StoppedAtStop(t) ==
    /\ trades' = <<>>
    /\ stopped'
    /\ trade_log'.count = trade_log.count + 1
    /\ trade_log'.last.direction = t.dir
    /\ trade_log'.last.entry_price = t.entry_price
    /\ trade_log'.last.exit_price = t.sl
    /\ cash' = cash + t.dir * (t.sl - t.entry_price) - commission

\* C8: when a long position with stop-loss s is open and the low of a bar is
\* <= s, the position is flat on that bar and the Trade exits at s, not at
\* the low, also when the low equals s; a short position is closed at its
\* stop-loss by a bar whose high is >= it.  The position is one held from the
\* bar before, with no close pending, or one entered at the open of the bar.
C8_StopFillsAtStopPrice ==
    [][BrokerStep =>
        /\ (Len(trades) = 1 /\ orders = <<>> /\ trades[1].sl # NaN) =>
             LET t == trades[1]
             IN  /\ (t.dir = 1 /\ bar'.low <= t.sl) => StoppedAtStop(t)
                 /\ (t.dir = -1 /\ bar'.high >= t.sl) => StoppedAtStop(t)
        /\ (Flat /\ Len(orders) = 1 /\ IsEntry(orders[1]) /\ orders[1].sl # NaN) =>
             LET d == IF orders[1].act = "buy" THEN 1 ELSE -1
                 t == [dir |-> d, entry_price |-> bar'.open,
                       sl |-> orders[1].sl, size |-> 1]
             IN  /\ (d = 1 /\ bar'.low <= t.sl) => StoppedAtStop(t)
                 /\ (d = -1 /\ bar'.high >= t.sl) => StoppedAtStop(t)
      ]_vars

\* a long position held from the bar before is stopped by a bar whose low
\* is its stop-loss exactly
C8_Witness ==
    /\ pc = "strategy" /\ stopped /\ Flat
    /\ trade_log.last.direction = 1
    /\ trade_log.last.exit_price = bar.low
    /\ trade_log.last.entry_price # bar.open

-----------------------------------------------------------------------------
(* C9 *)

\* C9: on every bar the stop-loss of the open position is checked against the
\* bar's high and low before next() evaluates an entry: when next() runs, and
\* after it, no open trade has its stop inside the bar, and on a bar on which
\* a stop closed the position the position is flat, so that next() sees it
\* flat and an entry it emits there is only pending: no position is opened on
\* the bar of the stop after the stop.
C9_StopCheckedBeforeEntry ==
    (pc \in {"strategy", "broker", "done"} /\ bar # NoBar) =>
        /\ \A k \in 1..Len(trades) :
              trades[k].sl # NaN =>
                  /\ trades[k].dir = 1 => bar.low > trades[k].sl
                  /\ trades[k].dir = -1 => bar.high < trades[k].sl
        /\ stopped => Flat
        /\ (stopped /\ Decided) => emitted.act \in {"none", "buy", "sell"}

\* on the bar of a stop next() has seen a flat position and emitted an entry,
\* which waits for the next bar
C9_Witness ==
    /\ Decided /\ pc = "broker" /\ stopped /\ Flat
    /\ emitted.act = "buy" /\ Len(orders) = 1

-----------------------------------------------------------------------------
(* C10 *)

\* an indicator the strategy reads is undefined on the current bar
UndefinedIndicator ==
    \/ strategy = "MACDCrossover" /\ (ind.macd = NaN \/ ind.signal = NaN)
    \/ strategy = "RSIMeanReversion" /\ ind.rsi = NaN
    \/ /\ strategy = "TrendFilteredRSI"
       /\ (ind.rsi = NaN \/ ind.ema = NaN \/ ind.atr = NaN)

\* C10: in each of the three strategies, on a bar where the current value of
\* an indicator the strategy uses is NaN, next() emits nothing, neither an
\* entry nor a close, position and cash stay as they are, and the loop goes on
\* to the next bar.
C10_UndefinedIndicatorSkipsBar ==
    [][(StrategyStep /\ UndefinedIndicator')
          => /\ emitted'.act = "none"
             /\ orders' = <<>>
             /\ trades' = trades
             /\ cash' = cash
             /\ ~diag'
             /\ pc' = "broker"
      ]_vars

\* TrendFilteredRSI keeps its long position on a bar where RSI crosses above
\* the exit level and the ATR is undefined
C10_Witness ==
    /\ Decided /\ strategy = "TrendFilteredRSI" /\ Long
    /\ len >= WarmUp
    /\ prev.rsi # NaN /\ prev.rsi < Whole(exit_level)
    /\ ind.rsi # NaN /\ ind.rsi > Whole(exit_level)
    /\ ind.ema # NaN /\ ind.atr = NaN
    /\ emitted.act = "none"

-----------------------------------------------------------------------------
(* C11 *)

\* the data has fewer bars than the largest indicator window
DataInsufficient == strategy = "TrendFilteredRSI" /\ nbars < WarmUp

\* C11: if the data has fewer bars than max(rsi_period, ema_period,
\* atr_period), the run fails before the simulation begins: no bar is
\* processed, next() is never called, no order is placed.
C11_FailFast ==
    DataInsufficient =>
        /\ bar = NoBar
        /\ pc # "strategy"
        /\ emitted.act = "none"
        /\ orders = <<>>

-----------------------------------------------------------------------------
(* C12 *)

\* next() evaluated its rules on the current bar
NotSkipped ==
    /\ len >= WarmUp
    /\ ind.rsi # NaN /\ ind.ema # NaN /\ ind.atr # NaN /\ ind.atr > 0

\* RSI on the previous bar against a level
RsiWasBelow(x) == prev.rsi # NaN /\ prev.rsi < Whole(x)
RsiWasAbove(x) == prev.rsi # NaN /\ prev.rsi > Whole(x)

\* C12: TrendFilteredRSI emits close exactly on a bar it does not skip on
\* which it holds a long position and RSI was below the exit level on the
\* previous bar and is above it on the current one, or holds a short position
\* and RSI was above the exit level and is below it now.  RSI lying beyond
\* the level on both bars emits no close.
C12_ExitOnCrossingOnly ==
    (Decided /\ strategy = "TrendFilteredRSI") =>
        (emitted.act = "close" <=>
            /\ NotSkipped
            /\ \/ Long /\ RsiWasBelow(exit_level) /\ RsiAbove(exit_level)
               \/ Short /\ RsiWasAbove(exit_level) /\ RsiBelow(exit_level))

\* a long position closed on the crossing
C12_Witness ==
    /\ Decided /\ strategy = "TrendFilteredRSI"
    /\ Long /\ RsiWasBelow(exit_level) /\ RsiAbove(exit_level)
    /\ emitted.act = "close"

-----------------------------------------------------------------------------
(* C13 *)

\* the three indicators of TrendFilteredRSI are defined on the current bar
IndicatorsDefined == ind.rsi # NaN /\ ind.ema # NaN /\ ind.atr # NaN

\* the rules of TrendFilteredRSI have been applied to the current bar: an
\* entry condition met while flat gave an order or the warning of a refused
\* stop, a crossing of the exit level with a position gave a close
RulesEvaluated ==
    /\ (Flat /\ Uptrend /\ RsiBelow(oversold)) =>
            (emitted.act = "buy" \/ diag)
    /\ (Flat /\ Downtrend /\ RsiAbove(overbought)) =>
            (emitted.act = "sell" \/ diag)
    /\ (Long /\ RsiWasBelow(exit_level) /\ RsiAbove(exit_level)) =>
            emitted.act = "close"
    /\ (Short /\ RsiWasAbove(exit_level) /\ RsiBelow(exit_level)) =>
            emitted.act = "close"

\* nothing emitted, position and cash as before
BarSkipped ==
    /\ emitted'.act = "none" /\ ~diag'
    /\ orders' = <<>>
    /\ trades' = trades
    /\ cash' = cash

\* C13 as stated: TrendFilteredRSI emits nothing and leaves the position
\* unchanged on every bar at which fewer than max(rsi_period, ema_period,
\* atr_period) bars have been seen, and evaluates its rules on every later
\* bar whose indicators are defined.
C13_EvaluatedWhenDefined ==
    [][(StrategyStep /\ strategy = "TrendFilteredRSI")
          => /\ len < WarmUp => BarSkipped
             /\ (len >= WarmUp /\ IndicatorsDefined') => RulesEvaluated'
      ]_vars

\* C13, amended: TrendFilteredRSI emits nothing and leaves the position
\* unchanged on every bar at which fewer than max(rsi_period, ema_period,
\* atr_period) bars have been seen, and evaluates its rules on every later
\* bar whose indicators are defined and whose ATR is positive; a bar with an
\* ATR of zero is skipped like a bar with an undefined indicator.
C13_WarmUpSkipped ==
    [][(StrategyStep /\ strategy = "TrendFilteredRSI")
          => /\ len < WarmUp => BarSkipped
             /\ (len >= WarmUp /\ IndicatorsDefined' /\ ind'.atr > 0)
                    => RulesEvaluated'
             /\ (len >= WarmUp /\ IndicatorsDefined' /\ ind'.atr = 0)
                    => BarSkipped
      ]_vars

\* the last bar of the warm-up: an entry condition is met and nothing is
\* emitted
C13_Witness ==
    /\ Decided /\ strategy = "TrendFilteredRSI"
    /\ len = WarmUp - 1
    /\ Flat /\ Uptrend /\ RsiBelow(oversold) /\ ind.atr # NaN /\ ind.atr > 0
    /\ emitted.act = "none" /\ ~diag /\ orders = <<>>

-----------------------------------------------------------------------------
(* C14 *)

\* commissions paid so far: the flat rate once per closed trade
CommissionsPaid == commission * trade_log.count

\* the accounting identity of the books
AccountingIdentity ==
    trade_log.profit_sum + CommissionsPaid = cash - initial_cash

\* the last record of the log is a closed trade with its realized profit
LastTradeBooked ==
    LET t == trade_log.last
    IN  /\ t.direction \in {1, -1}
        /\ t.entry_price # NaN /\ t.exit_price # NaN
        /\ t.profit = t.direction * (t.exit_price - t.entry_price)

\* C14: at the end of a run, and after every bar, the sum of the realized
\* profits of the trade log plus the commissions paid equals cash minus
\* initial cash (initial cash 10000, commission zero as run_backtest sets
\* them); every transition to flat appends exactly one Trade and changes the
\* cash by that trade's realized profit minus the commission, and cash and
\* log change in no other way.
C14_AccountingIdentity ==
    [][/\ AccountingIdentity'
       /\ initial_cash = 10000 /\ commission = 0
       /\ (~Flat /\ Flat') => trade_log'.count = trade_log.count + 1
       /\ trade_log' # trade_log =>
            /\ Flat'
            /\ trade_log'.count = trade_log.count + 1
            /\ LastTradeBooked'
            /\ trade_log'.profit_sum =
                   trade_log.profit_sum + trade_log'.last.profit
            /\ cash' = cash + trade_log'.last.profit - commission
       /\ trade_log' = trade_log => cash' = cash
      ]_vars

\* a finished run with two closed trades, a profit among them, and the cash
\* off its initial value
C14_Witness ==
    /\ pc = "done"
    /\ trade_log.count = 2
    /\ trade_log.last.profit > 0
    /\ cash # initial_cash
    /\ AccountingIdentity

-----------------------------------------------------------------------------
(* C15 *)

\* every step of the loop keeps the bars in order and the equity curve in
\* step with them, and the end of the run leaves the books alone
LoopStep ==
    /\ BrokerStep => len' = len + 1 /\ len < nbars
    /\ ~BrokerStep => len' = len
    /\ StrategyStep =>
          /\ equity_curve'.count = equity_curve.count + 1
          /\ equity_curve'.last = cash' + Unrealized(trades', bar'.close)
    /\ ~StrategyStep => equity_curve' = equity_curve
    /\ pc' = "done" =>
          /\ len = nbars
          /\ trades' = trades /\ cash' = cash /\ trade_log' = trade_log
    /\ IF pc' = "strategy"
       THEN equity_curve'.count = len' - 1
       ELSE equity_curve'.count = len'

\* the run is over: one equity point per bar, the last one the cash plus the
\* value of what is still open
RunComplete ==
    /\ pc = "done"
    /\ len = nbars
    /\ equity_curve.count = nbars
    /\ equity_curve.last = cash + Unrealized(trades, bar.close)

\* C15: a run over N bars takes the bars once each in order, appends one
\* equity point per bar, equity = cash + unrealized value of the position,
\* and terminates after the last bar with N equity points; a position open
\* at the last bar is not closed: no Trade is appended for it, the cash is
\* not touched, and it enters the final equity at its mark-to-market value.
C15_OneEquityPointPerBar ==
    /\ [][LoopStep]_vars
    /\ [](pc = "done" => RunComplete)
    /\ <>(pc = "done")

\* a finished run with a position left open and a gain on it in the final
\* equity, no trade logged
C15_Witness ==
    /\ RunComplete
    /\ ~Flat
    /\ trade_log.count = 0
    /\ cash = initial_cash
    /\ equity_curve.last > cash

-----------------------------------------------------------------------------
(* C16 *)

\* a run of RSIMeanReversion on rising closes
RisingRun ==
    strategy = "RSIMeanReversion" /\ data # NoData /\ Rising(data)

\* C16: over DataBars = 300 bars of rising closes, RSIMeanReversion with
\* period 14, oversold 30 and overbought 70 never enters long: the average
\* loss is 0 in every window, so the RSI is 100 or undefined and never below
\* 30.  It enters short at most once, and closes at most once and only after
\* that entry.
C16_RisingSeriesNoLong ==
    RisingRun =>
        /\ rsi_period = 14 /\ oversold = 30 /\ overbought = 70
        /\ tally.buy = 0
        /\ ~Long
        /\ tally.sell <= 1
        /\ tally.close <= tally.sell
        /\ Decided =>
              /\ ind.rsi \in {NaN, Whole(100)}
              /\ ~Lt(ind.rsi, Whole(oversold))
              /\ len >= rsi_period => avg_loss(data, len - 1) = 0

\* the end of a run of 300 rising bars: one short entry, still open
C16_Witness ==
    /\ RisingRun
    /\ pc = "done" /\ len = DataBars
    /\ tally = [buy |-> 0, sell |-> 1, close |-> 0]
    /\ Short
    /\ ind.rsi = Whole(100)

-----------------------------------------------------------------------------
(* C17 *)

\* a call of ema has returned
EmaReturned == calc # NoCalc /\ pc = "done"
ConstantArray(a) == \A k \in 1..Len(a) : a[k] = a[1]

\* a run on constant prices
ConstantRun == data # NoData /\ Constant(data)

\* the EMA of a constant series is the constant at every index, whatever the
\* dtype of the array: the value ema returns, a rounding error of the doubles
\* apart, and the value of the trend EMA of TrendFilteredRSI, which is kept
\* as the exact value of the recurrence
ConstantEma ==
    /\ (EmaReturned /\ ConstantArray(calc.arr)) =>
            \A k \in 1..Len(calc.arr) :
                calc.ema_arr[k].val = Rat(calc.arr[k], 1)
    /\ (ConstantRun /\ Decided /\ strategy = "TrendFilteredRSI") =>
            ema_long = Rat(bar.close, 1)

\* the ATR of a constant series is the constant once its window is full
ConstantAtr ==
    (ConstantRun /\ Decided /\ strategy = "TrendFilteredRSI"
        /\ len >= atr_period) => ind.atr = bar.close

\* on constant prices the RSI is undefined at every bar, in RSIMeanReversion
\* and in TrendFilteredRSI, and neither emits an action or opens a position
ConstantRsiNoAction ==
    (ConstantRun /\ Decided) =>
        /\ ind.rsi = NaN
        /\ emitted.act = "none" /\ ~diag
        /\ tally = NoTally
        /\ Flat /\ orders = <<>> /\ trade_log.count = 0

\* C17 as stated: for any constant price series the EMA output and the ATR
\* output are that constant, the RSI is undefined at every bar and nothing
\* raises, and the RSI-based strategies emit no action on the series.
C17_ConstantSeries ==
    /\ ConstantEma
    /\ ConstantAtr
    /\ ConstantRsiNoAction

-----------------------------------------------------------------------------
(* C18 *)

\* ema_arr obeys the recurrence of the EMA over arr with alpha = 2 / (n + 1),
\* up to the rounding of the doubles
EmaRecurrence(c) ==
    /\ Len(c.ema_arr) = Len(c.arr)
    /\ c.ema_arr[1] = Stored(Rat(c.arr[1], 1), 0)
    /\ \A k \in 2..Len(c.arr) :
          LET a == c.ema_arr[k].val
              b == c.ema_arr[k - 1].val
          IN  /\ a.den > 0
              /\ (c.n + 1) * a.num * b.den =
                     (2 * c.arr[k] * b.den + (c.n - 1) * b.num) * a.den
    /\ c.n = 1 =>
          \A k \in 1..Len(c.arr) : c.ema_arr[k] = Stored(Rat(c.arr[k], 1), 0)

\* C18: the array ema(arr, n) returns has the length of arr and is defined
\* from index 0, with ema[0] = arr[0] and ema[i] = alpha * arr[i] +
\* (1 - alpha) * ema[i - 1], alpha = 2 / (n + 1); with n = 1 it equals arr at
\* every index.
C18_EmaRecurrence == EmaReturned => EmaRecurrence(calc)

-----------------------------------------------------------------------------
(* C19 *)

\* a trade is open after the step that was not open before it
TradeOpened == trades' # <<>> /\ trades' # trades

\* C19: in every strategy the position never goes from long to short or from
\* short to long in one step.  next() emits at most one action per bar, an
\* entry only when it sees no position and a close only when it sees one, so
\* a trade is opened only by the entry that next() emitted on the bar before
\* while flat: between a long and a following short there is a bar at which
\* the strategy observes a flat position.
C19_NoDirectReversal ==
    [][/\ ~(Long /\ Short') /\ ~(Short /\ Long')
       /\ StrategyStep =>
             /\ Len(orders') <= 1
             /\ IsEntry(emitted') => Flat
             /\ emitted'.act = "close" => ~Flat
       /\ (BrokerStep /\ TradeOpened) =>
             /\ Flat
             /\ IsEntry(emitted)
             /\ orders = <<[act |-> emitted.act, sl |-> emitted.sl]>>
      ]_vars

\* a short position after a long one that was closed by signal
C19_Witness ==
    /\ Short
    /\ trade_log.count >= 1
    /\ trade_log.last.direction = 1
    /\ ~stopped

-----------------------------------------------------------------------------
(* C20 *)

\* the stops next() computes on the current bar
LongStop == long_stop_loss(bar.close, ind.atr)
ShortStop == short_stop_loss(bar.close, ind.atr)

\* next() got past its validity check on the current bar
ValidBar == Decided /\ strategy = "TrendFilteredRSI" /\ NotSkipped

\* C20 as stated: with the stop multiplier positive, on every bar that
\* passes the validity check the long stop is strictly below the close and
\* the short stop strictly above it, the branch refusing an illogical stop is
\* never taken, and every entry condition that holds while flat places an
\* order.
C20_StopsStrictlyBeyondClose ==
    ValidBar =>
        /\ stop_loss_atr_multiplier > 0
        /\ LongStop < bar.close /\ ShortStop > bar.close
        /\ ~diag
        /\ (Flat /\ Uptrend /\ RsiBelow(oversold)) => emitted.act = "buy"
        /\ (Flat /\ Downtrend /\ RsiAbove(overbought)) => emitted.act = "sell"

\* C20, amended: on every bar that passes the validity check the long stop
\* is at or below the close and the short stop at or above it, strictly so
\* when 2 * ATR is at least the spacing of the floats at the price.  A
\* smaller positive ATR can be absorbed by the rounding of close - 2 * ATR
\* and close + 2 * ATR, which then equal the close: the branch refusing the
\* stop is taken exactly when an entry condition holds while flat and the
\* stop equals the close, and every entry condition that holds while flat
\* with its stop off the close places an order carrying that stop.
C20_StopsBeyondCloseUnlessAbsorbed ==
    ValidBar =>
        /\ stop_loss_atr_multiplier > 0
        /\ LongStop <= bar.close /\ ShortStop >= bar.close
        /\ stop_loss_atr_multiplier * ind.atr >= ulp(bar.close) =>
              LongStop < bar.close /\ ShortStop > bar.close
        /\ diag <=>
              /\ Flat
              /\ \/ Uptrend /\ RsiBelow(oversold) /\ LongStop = bar.close
                 \/ Downtrend /\ RsiAbove(overbought) /\ ShortStop = bar.close
        /\ (Flat /\ Uptrend /\ RsiBelow(oversold) /\ LongStop < bar.close) =>
              emitted = [act |-> "buy", sl |-> LongStop]
        /\ (Flat /\ Downtrend /\ RsiAbove(overbought) /\ ShortStop > bar.close) =>
              emitted = [act |-> "sell", sl |-> ShortStop]

\* a short entry refused on a valid bar: the ATR is positive and the short
\* stop equals the close
C20_Witness ==
    /\ ValidBar /\ Flat
    /\ Downtrend /\ RsiAbove(overbought)
    /\ ind.atr > 0 /\ ShortStop = bar.close
    /\ diag /\ emitted.act = "none" /\ orders = <<>>


====
